---- MODULE Spec2Model ----
(***************************************************************************)
(* The escrow conformance harness of src/main.rs as a state machine.       *)
(*                                                                         *)
(* The harness is one sequential process: `pc` is its position, one action *)
(* per RPC call it makes (the local computation that follows the call up   *)
(* to the next RPC call is part of the same action).  The ledger, the      *)
(* faucet and the escrow program are the environment: every RPC call may   *)
(* fail, and the escrow program answers a transaction either as its wire   *)
(* contract says or with one of a fixed family of deviations (at most      *)
(* MaxDeviations of them in one run).                                      *)
(*                                                                         *)
(* Amounts are in units of 1000 lamports, so that the 64-bit balances of   *)
(* the program fit the integers of the model checker: 1 SOL is 1000000     *)
(* units, the 10000-lamport band is 10 units.                              *)
(***************************************************************************)
EXTENDS Integers, Sequences, FiniteSets, TLC

-----------------------------------------------------------------------------
(* Program constants                                                       *)

LAMPORTS_PER_SOL == 1000000

DEFAULT_VALIDATION_THRESHOLD == 1000

BUYER_INITIAL_BALANCE == 10 * LAMPORTS_PER_SOL

SELLER_INITIAL_BALANCE == 1 * LAMPORTS_PER_SOL

\* for attempt in 0..3
AIRDROP_ATTEMPTS == 3

\* for _ in 0..32
CONFIRM_POLLS == 32

\* let acceptable_range = 10000 (lamports)
PAYMENT_TOLERANCE == 10

\* for i in 0..5 of the escrowed payments; the direct payments are 5..7
ESCROWED_PAYMENTS == 5

TOTAL_PAYMENTS == 7

\* validation_data of the two withdrawals
FAILED_VALIDATION_DATA == 2000

VALID_VALIDATION_DATA == 500

-----------------------------------------------------------------------------
(* Bounds of the environment                                               *)

\* How many times the environment may depart from the expected behaviour in
\* one run (an escrow-program deviation, a duplicated faucet credit).
MaxDeviations == 1

\* The fee the ledger charges the fee payer of a transaction (5000 lamports).
Fees == {5}

\* The rent-exempt reserve the escrow program deposits in a new account, and
\* the reserve that get_minimum_balance_for_rent_exemption quotes.
RentDeposits == {1490}

RentQuotes == {1489}

-----------------------------------------------------------------------------
(* Identities and addresses                                                *)

\* Keypair::new() of TestContext::new and of test_successful_withdrawal:
\* four fresh, pairwise different keys.
Buyer == 1

Seller == 2

NewBuyer == 3

NewSeller == 4

SystemProgram == 0

Keys == {Buyer, Seller, NewBuyer, NewSeller}

SubscriptionId == "premium_content"

SubscriptionId2 == "premium_content_2"

SubIds == {SubscriptionId, SubscriptionId2}

SubIdCode(id) == IF id = SubscriptionId THEN 1 ELSE 2

\* Pubkey::find_program_address(seeds, program_id): a hash of the seeds,
\* modelled as an injective code of the seed tuple (tag, buyer, seller, id).
FindProgramAddress(seeds) ==
    1000 + 100 * seeds[2] + 10 * seeds[3] + SubIdCode(seeds[4])

\* The seeds of the two identities in the other order.
find_subscription_pda_seller_first(ctx, subscription_id) ==
    FindProgramAddress(<<"escrow", ctx.seller, ctx.buyer, subscription_id>>)

find_subscription_pda(ctx, subscription_id) ==
    FindProgramAddress(<<"escrow", ctx.buyer, ctx.seller, subscription_id>>)

Pdas == {FindProgramAddress(<<"escrow", b, s, id>>) : b \in Keys, s \in Keys, id \in SubIds}

Addrs == Keys \cup Pdas

\* TestContext: the two identities under test.
Context == [buyer |-> Buyer, seller |-> Seller]

\* The second lifecycle run with the identities of the first.
ContextReused == [buyer |-> Buyer, seller |-> Seller]

\* The identities of the second lifecycle.
Context2 == [buyer |-> NewBuyer, seller |-> NewSeller]

-----------------------------------------------------------------------------
(* Arithmetic of the comparisons                                           *)

\* u64::saturating_sub
SaturatingSub(a, b) == IF a > b THEN a - b ELSE 0

\* if post > pre { post - pre } else { pre - post }
AbsDiff(post, pre) == IF post > pre THEN post - pre ELSE pre - post

-----------------------------------------------------------------------------
(* InstructionCodec                                                        *)

\* get_instruction_sighash: the first 8 bytes of sha256("global:" + name).
get_instruction_sighash(name) ==
    CASE name = "start_subscription"  -> <<95, 237, 61, 140, 51, 173, 218, 39>>
      [] name = "make_payment"        -> <<19, 128, 153, 121, 221, 192, 91, 53>>
      [] name = "cancel_subscription" -> <<60, 139, 189, 242, 191, 208, 143, 18>>
      [] name = "withdraw_funds"      -> <<241, 36, 29, 111, 208, 31, 104, 217>>

\* str::as_bytes of the two subscription ids.
Utf8(id) ==
    IF id = SubscriptionId
    THEN <<112, 114, 101, 109, 105, 117, 109, 95, 99, 111, 110, 116, 101, 110, 116>>
    ELSE <<112, 114, 101, 109, 105, 117, 109, 95, 99, 111, 110, 116, 101, 110, 116, 95, 50>>

RECURSIVE LittleEndian(_, _)
\* borsh: an unsigned integer of `bytes` bytes, least significant byte first.
LittleEndian(n, bytes) ==
    IF bytes = 0 THEN <<>> ELSE <<n % 256>> \o LittleEndian(n \div 256, bytes - 1)

\* borsh of StartSubscriptionArgs { subscription_id: String, validation_threshold: u64 }
StartSubscriptionArgs(id, threshold) ==
    LittleEndian(Len(Utf8(id)), 4) \o Utf8(id) \o LittleEndian(threshold, 8)

\* The amount serialized as a u32.
MakePaymentArgsU32(amount) == LittleEndian(amount, 4)

\* borsh of MakePaymentArgs { amount: u64 }
MakePaymentArgs(amount) == LittleEndian(amount, 8)

\* borsh of WithdrawFundsArgs { validation_data: u64 }
WithdrawFundsArgs(validation_data) == LittleEndian(validation_data, 8)

\* AccountMeta::new(key, is_signer) and AccountMeta::new_readonly(key, is_signer)
AccountMetaNew(key, signer) == [addr |-> key, writable |-> TRUE, signer |-> signer]

AccountMetaReadonly(key, signer) == [addr |-> key, writable |-> FALSE, signer |-> signer]

\* test_start_subscription and the start of test_successful_withdrawal
StartInstruction(pda, buyer, seller, id) ==
    [method   |-> "start_subscription",
     data     |-> get_instruction_sighash("start_subscription")
                    \o StartSubscriptionArgs(id, DEFAULT_VALIDATION_THRESHOLD),
     accounts |-> <<AccountMetaNew(pda, FALSE), AccountMetaNew(buyer, TRUE),
                    AccountMetaReadonly(seller, FALSE),
                    AccountMetaReadonly(SystemProgram, FALSE)>>]

\* test_make_first_five_payments and the payments of test_successful_withdrawal
PaymentInstruction(pda, buyer, seller, amount) ==
    [method   |-> "make_payment",
     data     |-> get_instruction_sighash("make_payment") \o MakePaymentArgs(amount),
     accounts |-> <<AccountMetaNew(pda, FALSE), AccountMetaNew(buyer, TRUE),
                    AccountMetaNew(seller, FALSE),
                    AccountMetaReadonly(SystemProgram, FALSE)>>]

\* The direct payment built with the seller read-only, as in start.
DirectPaymentInstructionSellerReadonly(pda, buyer, seller, amount) ==
    [method   |-> "make_payment",
     data     |-> get_instruction_sighash("make_payment") \o MakePaymentArgs(amount),
     accounts |-> <<AccountMetaNew(pda, FALSE), AccountMetaNew(buyer, TRUE),
                    AccountMetaReadonly(seller, FALSE),
                    AccountMetaReadonly(SystemProgram, FALSE)>>]

\* test_make_direct_payments
DirectPaymentInstruction(pda, buyer, seller, amount) ==
    [method   |-> "make_payment",
     data     |-> get_instruction_sighash("make_payment") \o MakePaymentArgs(amount),
     accounts |-> <<AccountMetaNew(pda, FALSE), AccountMetaNew(buyer, TRUE),
                    AccountMetaNew(seller, FALSE),
                    AccountMetaReadonly(SystemProgram, FALSE)>>]

\* test_cancel_subscription and the cancel of test_successful_withdrawal
CancelInstruction(pda, buyer, seller) ==
    [method   |-> "cancel_subscription",
     data     |-> get_instruction_sighash("cancel_subscription"),
     accounts |-> <<AccountMetaNew(pda, FALSE), AccountMetaNew(buyer, TRUE),
                    AccountMetaNew(seller, FALSE),
                    AccountMetaReadonly(SystemProgram, FALSE)>>]

\* The withdrawal built with the signer flags of the payment-phase calls.
WithdrawInstructionBuyerSigns(pda, buyer, seller, validation_data) ==
    [method   |-> "withdraw_funds",
     data     |-> get_instruction_sighash("withdraw_funds")
                    \o WithdrawFundsArgs(validation_data),
     accounts |-> <<AccountMetaNew(pda, FALSE), AccountMetaNew(buyer, TRUE),
                    AccountMetaNew(seller, FALSE),
                    AccountMetaReadonly(SystemProgram, FALSE)>>]

\* test_failed_withdrawal and the withdrawal of test_successful_withdrawal
WithdrawInstruction(pda, buyer, seller, validation_data) ==
    [method   |-> "withdraw_funds",
     data     |-> get_instruction_sighash("withdraw_funds")
                    \o WithdrawFundsArgs(validation_data),
     accounts |-> <<AccountMetaNew(pda, FALSE), AccountMetaNew(buyer, FALSE),
                    AccountMetaNew(seller, TRUE),
                    AccountMetaReadonly(SystemProgram, FALSE)>>]

\* Transaction::new_signed_with_payer(&[instruction], Some(payer), &[signer], blockhash)
Transaction(instruction, payer, signer, blockhash) ==
    [instruction |-> instruction, payer |-> payer, signers |-> {signer},
     blockhash |-> blockhash]

-----------------------------------------------------------------------------
(* State                                                                   *)

VARIABLES
    pc,          \* the harness's position: the RPC call it is about to make
    result,      \* "running", "ok", or how the run ended
    i,           \* loop index of the payment loops
    fundIdx,     \* which funding call is running (1..4), 0 before and after
    attempt,     \* request_airdrop_with_confirmation: for attempt in 0..3
    poll,        \* request_airdrop_with_confirmation: for _ in 0..32
    pre,         \* pre_balances of the current scenario
    post,        \* post_balances of the current scenario
    hash,        \* recent_blockhash fetched for the next transaction
    rent,        \* rent_exemption fetched by the withdrawal scenarios
    reads,       \* the addresses read by the latest balance sample, in order
    bal,         \* ledger: lamports of every address
    acct,        \* ledger: the escrow account stored at every derived address
    tip,         \* ledger: the latest blockhash
    pending,     \* faucet: accepted requests of this funding call not credited yet
    credits,     \* faucet: credits made during this funding call
    devs,        \* how often the environment departed from the expected behaviour
    nRequests,   \* history: funding requests issued by this funding call
    nPolls,      \* history: confirmation polls made for the current request
    lastPoll,    \* history: outcome of the latest step of the current funding call
    funded,      \* history: addresses whose funding call returned Ok
    observed,    \* history: addresses whose balance setup read as >= 1 SOL
    failed,      \* history: an operation failed that the harness does not retry
    reqFailed,   \* history: a funding request was refused by the transport
    txLog        \* history: the transactions submitted, in order

vars == <<pc, result, i, fundIdx, attempt, poll, pre, post, hash, rent, reads,
          bal, acct, tip, pending, credits, devs,
          nRequests, nPolls, lastPoll, funded, observed, failed, reqFailed, txLog>>

harnessLocals == <<i, pre, post, hash, rent, reads>>

fundingVars == <<fundIdx, attempt, poll, pending, credits, nRequests, nPolls, lastPoll, funded, reqFailed>>

ledgerVars == <<bal, acct, tip>>

\* #[account] EscrowAccount, as the ledger stores it; `exists` is whether
\* get_account_data finds an account at the address.
NoAccount ==
    [exists |-> FALSE, seller |-> 0, buyer |-> 0, subscription_id |-> "",
     payment_count |-> 0, total_amount |-> 0, is_active |-> FALSE,
     validation_threshold |-> 0]

NoBalance == [seller |-> 0, escrow |-> 0, buyer |-> 0]

Init ==
    /\ pc = "airdrop_request"
    /\ result = "running"
    /\ i = 0
    /\ fundIdx = 1
    /\ attempt = 0
    /\ poll = 0
    /\ pre = NoBalance
    /\ post = NoBalance
    /\ hash = 0
    /\ rent = 0
    /\ reads = <<>>
    /\ bal = [a \in Addrs |-> 0]
    /\ acct = [a \in Pdas |-> NoAccount]
    /\ tip = 1
    /\ pending = 0
    /\ credits = 0
    /\ devs = 0
    /\ nRequests = 0
    /\ nPolls = 0
    /\ lastPoll = [confirmed |-> FALSE, balance |-> 0]
    /\ funded = {}
    /\ observed = {}
    /\ failed = FALSE
    /\ reqFailed = FALSE
    /\ txLog = <<>>

Running == result = "running"

-----------------------------------------------------------------------------
(* The ledger and the escrow program (the remote side of the wire)         *)

Methods == {"start_subscription", "make_payment", "cancel_subscription", "withdraw_funds"}

RECURSIVE FromLittleEndian(_)
FromLittleEndian(bytes) ==
    IF bytes = <<>> THEN 0 ELSE bytes[1] + 256 * FromLittleEndian(Tail(bytes))

\* Dispatch on the 8-byte selector.
MethodOf(ix) == CHOOSE m \in Methods : get_instruction_sighash(m) = SubSeq(ix.data, 1, 8)

ArgBytes(ix) == SubSeq(ix.data, 9, Len(ix.data))

\* The u64 argument of make_payment and withdraw_funds.
U64Arg(ix) == FromLittleEndian(ArgBytes(ix))

\* The arguments of start_subscription.
StartIdArg(ix) ==
    LET n == FromLittleEndian(SubSeq(ArgBytes(ix), 1, 4))
    IN  CHOOSE id \in SubIds : Utf8(id) = SubSeq(ArgBytes(ix), 5, 4 + n)

StartThresholdArg(ix) ==
    LET n == FromLittleEndian(SubSeq(ArgBytes(ix), 1, 4))
    IN  FromLittleEndian(SubSeq(ArgBytes(ix), 5 + n, 12 + n))

\* The account list of every operation: [account, buyer, seller, system].
IxEscrow(ix) == ix.accounts[1].addr

IxBuyer(ix) == ix.accounts[2].addr

IxSeller(ix) == ix.accounts[3].addr

\* The ledger's own checks of a transaction: a current blockhash, the
\* signature of the fee payer and of every account flagged as signer.
RuntimeAccepts(tx, ledgerTip) ==
    /\ tx.blockhash = ledgerTip
    /\ tx.payer \in tx.signers
    /\ \A k \in 1..Len(tx.instruction.accounts) :
          tx.instruction.accounts[k].signer => tx.instruction.accounts[k].addr \in tx.signers

\* The escrow program's own checks: the state machine
\* Uninitialized -> Active -> Inactive -> Closed and the signer of each call.
ProgramAccepts(ix, accounts, balances) ==
    LET a == IxEscrow(ix)
        m == MethodOf(ix)
        matches == /\ accounts[a].exists
                   /\ accounts[a].buyer = IxBuyer(ix)
                   /\ accounts[a].seller = IxSeller(ix)
    IN  /\ a \in Pdas
        /\ ix.accounts[1].writable
        /\ CASE m = "start_subscription" ->
                  /\ ~accounts[a].exists
                  /\ ix.accounts[2].signer /\ ix.accounts[2].writable
                  /\ a = FindProgramAddress(<<"escrow", IxBuyer(ix), IxSeller(ix), StartIdArg(ix)>>)
             [] m = "make_payment" ->
                  /\ matches /\ accounts[a].is_active
                  /\ ix.accounts[2].signer /\ ix.accounts[2].writable /\ ix.accounts[3].writable
                  /\ balances[IxBuyer(ix)] >= U64Arg(ix)
             [] m = "cancel_subscription" ->
                  /\ matches /\ accounts[a].is_active
                  /\ ix.accounts[2].signer
             [] OTHER ->
                  /\ matches /\ ~accounts[a].is_active
                  /\ ix.accounts[3].signer /\ ix.accounts[2].writable /\ ix.accounts[3].writable
                  /\ balances[a] >= accounts[a].total_amount
                  /\ accounts[a].total_amount >= LAMPORTS_PER_SOL

\* Whether make_payment goes to the escrow account (the first five payments
\* of a subscription) or straight to the seller (every later one).
Escrowed(account) == account.payment_count < ESCROWED_PAYMENTS

\* What the program may do with an accepted call.  The first outcome of each
\* list is the wire contract; a direct payment may or may not count in
\* payment_count (the spec says it does not, the harness expects that it
\* does); every other outcome is a deviation.
Outcomes(ix, accounts, balances) ==
    LET a == IxEscrow(ix)
        m == MethodOf(ix)
    IN  CASE m = "start_subscription" ->
               {"ok", "inactive", "counted", "swapped", "wrong_id"}
          [] m = "make_payment" /\ Escrowed(accounts[a]) ->
               {"ok", "no_credit", "to_seller", "both", "no_count", "no_total",
                "skim_in", "skim_out", "double_credit"}
               \cup (IF balances[a] >= U64Arg(ix) THEN {"refund"} ELSE {})
          [] m = "make_payment" /\ ~Escrowed(accounts[a]) ->
               {"ok", "uncounted", "no_credit", "to_escrow", "both"}
          [] m = "cancel_subscription" ->
               {"ok", "still_active"}
               \cup (IF balances[a] >= accounts[a].total_amount THEN {"pays_seller"} ELSE {})
          [] m = "withdraw_funds" /\ U64Arg(ix) > accounts[a].validation_threshold ->
               {"ok", "short_refund", "seller_paid", "not_closed"}
          [] OTHER ->
               {"ok", "short_payout", "no_rent", "refunded", "not_closed"}

IsDeviation(outcome) == outcome \notin {"ok", "uncounted"}

\* The lamports an outcome moves: [escrow, buyer, seller] deltas, before the fee.
Moves(ix, outcome, accounts, balances, deposit) ==
    LET a     == IxEscrow(ix)
        m     == MethodOf(ix)
        amt   == U64Arg(ix)
        held  == balances[a]
        total == accounts[a].total_amount
        band  == LAMPORTS_PER_SOL \div 100
        mv(e, b, s) == [escrow |-> e, buyer |-> b, seller |-> s]
    IN  CASE m = "start_subscription" -> mv(deposit, -deposit, 0)
          [] m = "make_payment" /\ Escrowed(accounts[a]) ->
               CASE outcome = "no_credit" -> mv(0, 0, 0)
                 [] outcome = "to_seller" -> mv(0, -amt, amt)
                 [] outcome = "both"      -> mv(amt, -2 * amt, amt)
                 [] outcome = "refund"    -> mv(-amt, amt, 0)
                 [] outcome = "double_credit" -> mv(2 * amt, -2 * amt, 0)
                 [] outcome = "skim_in"   -> mv(amt - PAYMENT_TOLERANCE, -amt, 0)
                 [] outcome = "skim_out"  -> mv(amt - PAYMENT_TOLERANCE - 1, -amt, 0)
                 [] OTHER                 -> mv(amt, -amt, 0)
          [] m = "make_payment" ->
               CASE outcome = "no_credit" -> mv(0, 0, 0)
                 [] outcome = "to_escrow" -> mv(amt, -amt, 0)
                 [] outcome = "both"      -> mv(amt, -2 * amt, amt)
                 [] OTHER                 -> mv(0, -amt, amt)
          [] m = "cancel_subscription" ->
               CASE outcome = "pays_seller" -> mv(-total, 0, total)
                 [] OTHER                   -> mv(0, 0, 0)
          [] m = "withdraw_funds" /\ amt > accounts[a].validation_threshold ->
               CASE outcome = "short_refund" -> mv(-held, held - band - 2, 0)
                 [] outcome = "seller_paid"  -> mv(-held, held - total, total)
                 [] outcome = "not_closed"   -> mv(-total, total, 0)
                 [] OTHER                    -> mv(-held, held, 0)
          [] OTHER ->
               CASE outcome = "short_payout" -> mv(-held, held - total, total - band - 2)
                 [] outcome = "no_rent"      -> mv(-held, 0, total)
                 [] outcome = "refunded"     -> mv(-held, held, 0)
                 [] outcome = "not_closed"   -> mv(-total, 0, total)
                 [] OTHER                    -> mv(-held, held - total, total)

\* The escrow account an outcome leaves behind.
Stored(ix, outcome, accounts) ==
    LET a   == IxEscrow(ix)
        m   == MethodOf(ix)
        old == accounts[a]
    IN  CASE m = "start_subscription" ->
               [exists |-> TRUE,
                seller |-> IF outcome = "swapped" THEN IxBuyer(ix) ELSE IxSeller(ix),
                buyer  |-> IF outcome = "swapped" THEN IxSeller(ix) ELSE IxBuyer(ix),
                subscription_id |-> IF outcome = "wrong_id"
                                    THEN CHOOSE id \in SubIds : id # StartIdArg(ix)
                                    ELSE StartIdArg(ix),
                payment_count |-> IF outcome = "counted" THEN 1 ELSE 0,
                total_amount |-> 0,
                is_active |-> outcome # "inactive",
                validation_threshold |-> StartThresholdArg(ix)]
          [] m = "make_payment" /\ Escrowed(old) ->
               [old EXCEPT !.payment_count = IF outcome = "no_count" THEN @ ELSE (@ + 1) % 256,
                           !.total_amount = IF outcome = "no_total" THEN @ ELSE @ + U64Arg(ix)]
          [] m = "make_payment" ->
               [old EXCEPT !.payment_count = IF outcome = "uncounted" THEN @ ELSE (@ + 1) % 256]
          [] m = "cancel_subscription" ->
               [old EXCEPT !.is_active = outcome = "still_active"]
          [] OTHER ->
               IF outcome = "not_closed" THEN old ELSE NoAccount

\* The ledger after the transaction: the program's outcome and the fee.
Executed(tx, outcome, fee, deposit, accounts, balances) ==
    LET ix == tx.instruction
        mv == Moves(ix, outcome, accounts, balances, deposit)
        moved == [balances EXCEPT ![IxEscrow(ix)] = @ + mv.escrow,
                                  ![IxBuyer(ix)] = @ + mv.buyer,
                                  ![IxSeller(ix)] = @ + mv.seller]
    IN  [bal  |-> [moved EXCEPT ![tx.payer] = @ - fee],
         acct |-> [accounts EXCEPT ![IxEscrow(ix)] = Stored(ix, outcome, accounts)]]

-----------------------------------------------------------------------------
(* Error propagation                                                       *)

\* A `?` that is missing: the error value is dropped and the run goes on.
RaiseDropped(kind) == "running"

\* The `?` of main and of the scenario functions: the error is returned to
\* main, which returns it; nothing is executed after it.
Raise(kind) == kind

-----------------------------------------------------------------------------
(* FundingController: TestContext::request_airdrop_with_confirmation       *)

\* The four funding calls, in program order: setup funds buyer and seller,
\* test_successful_withdrawal funds new_buyer and new_seller.
FundTarget(idx) ==
    CASE idx = 1 -> Buyer [] idx = 2 -> Seller [] idx = 3 -> NewBuyer [] OTHER -> NewSeller

FundAmount(idx) ==
    IF idx \in {1, 3} THEN BUYER_INITIAL_BALANCE ELSE SELLER_INITIAL_BALANCE

\* Where the caller continues after `.await?` of a funding call.
FundingReturns(idx) ==
    CASE idx = 1 -> [pc |-> "airdrop_request", fundIdx |-> 2]
      [] idx = 2 -> [pc |-> "setup_verify", fundIdx |-> 0]
      [] idx = 3 -> [pc |-> "airdrop_request", fundIdx |-> 4]
      [] OTHER   -> [pc |-> "sw_initial", fundIdx |-> 0]

FundStep(r, p, a, q) == [result |-> r, pc |-> p, attempt |-> a, poll |-> q]

\* The attempt loop with an inclusive range: one attempt too many.
AttemptEndsInclusive(a) ==
    IF a + 1 <= AIRDROP_ATTEMPTS
    THEN FundStep("running", "airdrop_request", a + 1, 0)
    ELSE FundStep("funding_failed", "airdrop_request", a + 1, 0)

\* The attempt loop that falls through to Ok(()) when the attempts are used up.
AttemptEndsWithOk(a) ==
    IF a + 1 < AIRDROP_ATTEMPTS
    THEN FundStep("running", "airdrop_request", a + 1, 0)
    ELSE FundStep("running", "setup_verify", a + 1, 0)

\* End of one iteration of `for attempt in 0..3`: sleep 1 s, then the next
\* attempt, or Err("Failed to complete airdrop after multiple attempts").
AttemptEnds(a) ==
    IF a + 1 < AIRDROP_ATTEMPTS
    THEN FundStep("running", "airdrop_request", a + 1, 0)
    ELSE FundStep(Raise("funding_failed"), "airdrop_request", a + 1, 0)

\* End of one iteration of `for _ in 0..32`: sleep 500 ms, then the next
\* poll, or the end of the attempt.
PollEnds(a, q) ==
    IF q + 1 < CONFIRM_POLLS
    THEN FundStep("running", "airdrop_confirm", a, q + 1)
    ELSE AttemptEnds(a)

\* The request's error propagated with `?` instead of being logged.
RequestFailedPropagates(a) == FundStep("rpc_error", "airdrop_request", a, 0)

\* Err(e) => println!("Airdrop request failed: {}", e)
RequestFailed(a) == AttemptEnds(a)

\* Ok(signature) => the polling loop starts
RequestAccepted(a) == FundStep("running", "airdrop_confirm", a, 0)

\* confirm_transaction(..).unwrap_or(false): the poll's error is suppressed.
ConfirmedOrFalse(a, q, outcome) ==
    IF outcome = "true" THEN FundStep("running", "airdrop_balance", a, q) ELSE PollEnds(a, q)

\* The poll's error handled like a refused request: logged, next attempt.
ConfirmedErrEndsAttempt(a, q, outcome) ==
    CASE outcome = "err"  -> AttemptEnds(a)
      [] outcome = "true" -> FundStep("running", "airdrop_balance", a, q)
      [] OTHER            -> PollEnds(a, q)

\* if self.client.confirm_transaction(&signature)? { ... }
Confirmed(a, q, outcome) ==
    CASE outcome = "err"  -> FundStep(Raise("rpc_error"), "airdrop_confirm", a, q)
      [] outcome = "true" -> FundStep("running", "airdrop_balance", a, q)
      [] OTHER            -> PollEnds(a, q)

\* The balance re-check left out: success on the positive confirmation alone.
BalanceNotChecked(balance, amount) == TRUE

\* if balance >= amount { return Ok(()) }
BalanceReached(balance, amount) == balance >= amount

AirdropRequest ==
    /\ Running
    /\ pc = "airdrop_request"
    /\ \E ok \in BOOLEAN :
          LET nx == IF ok THEN RequestAccepted(attempt) ELSE RequestFailed(attempt)
          IN  /\ pc' = nx.pc
              /\ result' = nx.result
              /\ attempt' = nx.attempt
              /\ poll' = nx.poll
              /\ pending' = IF ok THEN pending + 1 ELSE pending
              /\ nRequests' = nRequests + 1
              /\ nPolls' = 0
              /\ reqFailed' = (reqFailed \/ ~ok)
              /\ failed' = (failed \/ (~ok /\ attempt + 1 >= AIRDROP_ATTEMPTS))
    /\ UNCHANGED <<harnessLocals, ledgerVars, fundIdx, credits, devs, lastPoll,
                   funded, observed, txLog>>

AirdropConfirm ==
    /\ Running
    /\ pc = "airdrop_confirm"
    /\ \E outcome \in {"true", "false", "err"} :
          LET nx == Confirmed(attempt, poll, outcome)
          IN  /\ pc' = nx.pc
              /\ result' = nx.result
              /\ attempt' = nx.attempt
              /\ poll' = nx.poll
              /\ nPolls' = nPolls + 1
              /\ lastPoll' = [confirmed |-> outcome = "true", balance |-> 0]
              /\ failed' = (failed \/ outcome = "err"
                              \/ (outcome = "false" /\ poll + 1 >= CONFIRM_POLLS
                                    /\ attempt + 1 >= AIRDROP_ATTEMPTS))
    /\ UNCHANGED <<harnessLocals, ledgerVars, fundIdx, pending, credits, devs,
                   nRequests, funded, observed, reqFailed, txLog>>

\* let balance = self.get_balance(pubkey)?; with the comparison that follows
AirdropBalance ==
    /\ Running
    /\ pc = "airdrop_balance"
    /\ \E ok \in BOOLEAN :
          LET who     == FundTarget(fundIdx)
              amount  == FundAmount(fundIdx)
              balance == bal[who]
              reached == ok /\ BalanceReached(balance, amount)
              ret     == FundingReturns(fundIdx)
              nx      == IF ~ok THEN FundStep(Raise("rpc_error"), pc, attempt, poll)
                         ELSE IF reached THEN FundStep("running", ret.pc, 0, 0)
                         ELSE PollEnds(attempt, poll)
          IN  /\ pc' = nx.pc
              /\ result' = nx.result
              /\ attempt' = nx.attempt
              /\ poll' = nx.poll
              /\ lastPoll' = IF reached THEN [confirmed |-> FALSE, balance |-> 0]
                             ELSE IF ok THEN [lastPoll EXCEPT !.balance = balance]
                             ELSE lastPoll
              /\ fundIdx' = IF reached THEN ret.fundIdx ELSE fundIdx
              /\ funded' = IF reached
                           THEN funded \cup {[addr |-> who, amount |-> amount,
                                              confirmed |-> lastPoll.confirmed,
                                              balance |-> balance]}
                           ELSE funded
              /\ pending' = IF reached THEN 0 ELSE pending
              /\ credits' = IF reached THEN 0 ELSE credits
              /\ nRequests' = IF reached THEN 0 ELSE nRequests
              /\ nPolls' = IF reached THEN 0 ELSE nPolls
              /\ failed' = (failed \/ ~ok
                              \/ (~reached /\ poll + 1 >= CONFIRM_POLLS
                                    /\ attempt + 1 >= AIRDROP_ATTEMPTS))
    /\ UNCHANGED <<harnessLocals, ledgerVars, devs, observed, reqFailed, txLog>>

\* The faucet executes an accepted request: the address is credited.  A
\* request is executed during its funding call or never; a second credit
\* within one funding call is a departure from the expected behaviour.
FaucetCredit ==
    /\ Running
    /\ pc \in {"airdrop_confirm", "airdrop_balance", "airdrop_request"}
    /\ pending > 0
    /\ credits > 0 => devs < MaxDeviations
    /\ bal' = [bal EXCEPT ![FundTarget(fundIdx)] = @ + FundAmount(fundIdx)]
    /\ pending' = pending - 1
    /\ credits' = credits + 1
    /\ devs' = IF credits > 0 THEN devs + 1 ELSE devs
    /\ UNCHANGED <<pc, result, harnessLocals, acct, tip, fundIdx, attempt, poll,
                   nRequests, nPolls, lastPoll, funded, observed, failed, reqFailed, txLog>>

-----------------------------------------------------------------------------
(* TestContext::setup                                                      *)

\* if buyer_balance < LAMPORTS_PER_SOL || seller_balance < LAMPORTS_PER_SOL
SetupBalancesOk(buyer_balance, seller_balance) ==
    ~(buyer_balance < LAMPORTS_PER_SOL \/ seller_balance < LAMPORTS_PER_SOL)

\* "Final balance verification": two balance reads and the comparison
SetupVerify ==
    /\ Running
    /\ pc = "setup_verify"
    /\ \E ok \in BOOLEAN :
          LET good == ok /\ SetupBalancesOk(bal[Buyer], bal[Seller])
          IN  /\ result' = IF ~ok THEN Raise("rpc_error")
                           ELSE IF good THEN "running" ELSE Raise("check_failed")
              /\ pc' = IF good THEN "initial_balances" ELSE pc
              /\ observed' = IF ok
                             THEN {a \in {Buyer, Seller} : bal[a] >= LAMPORTS_PER_SOL}
                             ELSE observed
              /\ failed' = (failed \/ ~good)
    /\ UNCHANGED <<harnessLocals, ledgerVars, fundingVars, devs, txLog>>

-----------------------------------------------------------------------------
(* Steps shared by the scenarios                                           *)

Goto(p) == pc' = p /\ result' = "running" /\ failed' = failed

Fails(kind) == pc' = pc /\ result' = Raise(kind) /\ failed' = TRUE

\* The three reads in the order of the fields of Balance.
BalanceReadOrderOfFields(ctx, pda) == <<ctx.seller, pda, ctx.buyer>>

\* TestContext::get_balances: the three get_balance calls, in source order.
BalanceReadOrder(ctx, pda) == <<ctx.seller, ctx.buyer, pda>>

get_balances(ctx, pda, balances) ==
    [seller |-> balances[ctx.seller], escrow |-> balances[pda], buyer |-> balances[ctx.buyer]]

\* The Balance { seller, escrow, buyer } literals of test_successful_withdrawal.
InlineReadOrder(ctx, pda) == <<ctx.seller, pda, ctx.buyer>>

\* A balance sample: `n` of the reads of `order` succeed; the sample is
\* complete when all of them do.
Sampled(order, n) == reads' = SubSeq(order, 1, IF n < Len(order) THEN n + 1 ELSE n)

\* The blockhash fetched once and kept for every later transaction.
FetchBlockhashCached(at, next) ==
    /\ Running
    /\ pc = at
    /\ \/ Goto(next) /\ hash' = (IF hash = 0 THEN tip ELSE hash)
       \/ Fails("rpc_error") /\ hash' = hash
    /\ UNCHANGED <<i, pre, post, rent, reads, ledgerVars, fundingVars, devs, observed, txLog>>

\* let recent_blockhash = context.client.get_latest_blockhash()?;
FetchBlockhash(at, next) ==
    /\ Running
    /\ pc = at
    /\ \/ Goto(next) /\ hash' = tip
       \/ Fails("rpc_error") /\ hash' = hash
    /\ UNCHANGED <<i, pre, post, rent, reads, ledgerVars, fundingVars, devs, observed, txLog>>

\* context.client.send_and_confirm_transaction(&transaction)?: the signed
\* transaction is submitted once; the ledger executes it or reports an error.
SendAndConfirm(at, next, tx) ==
    /\ Running
    /\ pc = at
    /\ txLog' = Append(txLog, tx)
    /\ \/ /\ Fails("rpc_error")
          /\ UNCHANGED <<ledgerVars, devs>>
       \/ /\ RuntimeAccepts(tx, tip)
          /\ ProgramAccepts(tx.instruction, acct, bal)
          /\ \E outcome \in Outcomes(tx.instruction, acct, bal), fee \in Fees,
                deposit \in RentDeposits :
                LET after == Executed(tx, outcome, fee, deposit, acct, bal)
                IN  /\ IsDeviation(outcome) => devs < MaxDeviations
                    /\ devs' = IF IsDeviation(outcome) THEN devs + 1 ELSE devs
                    /\ bal' = after.bal
                    /\ acct' = after.acct
                    /\ tip' = tip + 1
          /\ Goto(next)
    /\ UNCHANGED <<pre, post, hash, rent, reads, fundingVars, observed>>

\* get_account_data(&pda)? and EscrowAccount::try_deserialize(..)?: the view
\* of the stored account; both fail when there is no account at the address.
Fetchable(pda) == acct[pda].exists

EscrowAccountView(pda) ==
    [seller |-> acct[pda].seller, buyer |-> acct[pda].buyer,
     subscription_id |-> acct[pda].subscription_id,
     payment_count |-> acct[pda].payment_count,
     total_amount |-> acct[pda].total_amount,
     is_active |-> acct[pda].is_active,
     validation_threshold |-> acct[pda].validation_threshold]

\* The account of the first lifecycle and of the second.
SubscriptionPda == find_subscription_pda(Context, SubscriptionId)

\* The second lifecycle run on the account of the first.
SubscriptionPdaReused == find_subscription_pda(Context, SubscriptionId)

SubscriptionPda2 ==
    FindProgramAddress(<<"escrow", Context2.buyer, Context2.seller, SubscriptionId2>>)

\* let payment_amount = LAMPORTS_PER_SOL
PaymentAmount == LAMPORTS_PER_SOL

-----------------------------------------------------------------------------
(* main: the initial sample                                                *)

InitialBalances ==
    /\ Running
    /\ pc = "initial_balances"
    /\ \E n \in 0..3 :
          /\ Sampled(BalanceReadOrder(Context, SubscriptionPda), n)
          /\ IF n = 3 THEN Goto("start_blockhash") ELSE Fails("rpc_error")
    /\ UNCHANGED <<i, pre, post, hash, rent, ledgerVars, fundingVars, devs, observed, txLog>>

-----------------------------------------------------------------------------
(* Scenario 1: test_start_subscription                                     *)

\* The assertions without the one on is_active.
StartViewOkWithoutActive(view, ctx, subscription_id) ==
    /\ view.seller = ctx.seller
    /\ view.buyer = ctx.buyer
    /\ view.subscription_id = subscription_id
    /\ view.payment_count = 0

\* The five assert_eq! on the fetched account.
StartViewOk(view, ctx, subscription_id) ==
    /\ view.seller = ctx.seller
    /\ view.buyer = ctx.buyer
    /\ view.subscription_id = subscription_id
    /\ view.payment_count = 0
    /\ view.is_active = TRUE

StartBlockhash == FetchBlockhash("start_blockhash", "start_send")

StartSend ==
    /\ SendAndConfirm("start_send", "start_verify",
          Transaction(StartInstruction(SubscriptionPda, Context.buyer, Context.seller,
                                       SubscriptionId),
                      Context.buyer, Context.buyer, hash))
    /\ UNCHANGED i

StartVerify ==
    /\ Running
    /\ pc = "start_verify"
    /\ \E ok \in BOOLEAN :
          IF ok /\ Fetchable(SubscriptionPda)
          THEN IF StartViewOk(EscrowAccountView(SubscriptionPda), Context, SubscriptionId)
               THEN Goto("pay_pre") /\ i' = 0
               ELSE Fails("panic") /\ i' = i
          ELSE Fails("rpc_error") /\ i' = i
    /\ UNCHANGED <<pre, post, hash, rent, reads, ledgerVars, fundingVars, devs, observed, txLog>>

-----------------------------------------------------------------------------
(* Scenario 2: test_make_first_five_payments                               *)

\* escrow_difference within payment_amount +- acceptable_range
EscrowReceived(before, after, amount) ==
    LET escrow_difference == AbsDiff(after.escrow, before.escrow)
    IN  ~(\/ escrow_difference > amount + PAYMENT_TOLERANCE
          \/ escrow_difference < SaturatingSub(amount, PAYMENT_TOLERANCE))

\* if post_balances.seller != pre_balances.seller { return Err(..) }
SellerUnchanged(before, after) == ~(after.seller # before.seller)

\* The final verification without the assertion on payment_count.
PaymentsViewOkTotalOnly(view, amount) == view.total_amount = amount * 5

\* The final verification without the assertion on total_amount.
PaymentsViewOkCountOnly(view, amount) == view.payment_count = ESCROWED_PAYMENTS

\* assert_eq!(payment_count, 5) and assert_eq!(total_amount, payment_amount * 5)
PaymentsViewOk(view, amount) ==
    /\ view.payment_count = ESCROWED_PAYMENTS
    /\ view.total_amount = amount * 5

PayPre ==
    /\ Running
    /\ pc = "pay_pre"
    /\ \E n \in 0..3 :
          /\ Sampled(BalanceReadOrder(Context, SubscriptionPda), n)
          /\ IF n = 3
             THEN Goto("pay_blockhash") /\ pre' = get_balances(Context, SubscriptionPda, bal)
             ELSE Fails("rpc_error") /\ pre' = pre
    /\ UNCHANGED <<i, post, hash, rent, ledgerVars, fundingVars, devs, observed, txLog>>

PayBlockhash == FetchBlockhash("pay_blockhash", "pay_send")

PaySend ==
    /\ SendAndConfirm("pay_send", "pay_post",
          Transaction(PaymentInstruction(SubscriptionPda, Context.buyer, Context.seller,
                                         PaymentAmount),
                      Context.buyer, Context.buyer, hash))
    /\ UNCHANGED i

PayPost ==
    /\ Running
    /\ pc = "pay_post"
    /\ \E n \in 0..3 :
          /\ Sampled(BalanceReadOrder(Context, SubscriptionPda), n)
          /\ IF n = 3
             THEN LET sample == get_balances(Context, SubscriptionPda, bal)
                  IN  /\ post' = sample
                      /\ IF EscrowReceived(pre, sample, PaymentAmount)
                            /\ SellerUnchanged(pre, sample)
                         THEN /\ Goto(IF i + 1 < ESCROWED_PAYMENTS THEN "pay_pre" ELSE "pay_verify")
                              /\ i' = i + 1
                         ELSE Fails("check_failed") /\ i' = i
             ELSE Fails("rpc_error") /\ post' = post /\ i' = i
    /\ UNCHANGED <<pre, hash, rent, ledgerVars, fundingVars, devs, observed, txLog>>

PayVerify ==
    /\ Running
    /\ pc = "pay_verify"
    /\ \E ok \in BOOLEAN :
          IF ok /\ Fetchable(SubscriptionPda)
          THEN IF PaymentsViewOk(EscrowAccountView(SubscriptionPda), PaymentAmount)
               THEN Goto("direct_pre") /\ i' = ESCROWED_PAYMENTS
               ELSE Fails("panic") /\ i' = i
          ELSE Fails("rpc_error") /\ i' = i
    /\ UNCHANGED <<pre, post, hash, rent, reads, ledgerVars, fundingVars, devs, observed, txLog>>

-----------------------------------------------------------------------------
(* Scenario 3: test_make_direct_payments                                   *)

\* seller_difference within payment_amount +- acceptable_range
SellerReceived(before, after, amount) ==
    LET seller_difference == AbsDiff(after.seller, before.seller)
    IN  ~(\/ seller_difference > amount + PAYMENT_TOLERANCE
          \/ seller_difference < SaturatingSub(amount, PAYMENT_TOLERANCE))

\* The escrow comparison left out of the direct-payment scenario.
EscrowNotCompared(before, after) == TRUE

\* if post_balances.escrow != pre_balances.escrow { return Err(..) }
EscrowUnchanged(before, after) == ~(after.escrow # before.escrow)

\* The final assertion on payment_count left out.
DirectViewOkAny(view) == TRUE

\* The final assertion expecting the count the escrowed payments left.
DirectViewOkFive(view) == view.payment_count = ESCROWED_PAYMENTS

\* assert_eq!(escrow_account.payment_count, 7)
DirectViewOk(view) == view.payment_count = TOTAL_PAYMENTS

DirectPre ==
    /\ Running
    /\ pc = "direct_pre"
    /\ \E n \in 0..3 :
          /\ Sampled(BalanceReadOrder(Context, SubscriptionPda), n)
          /\ IF n = 3
             THEN Goto("direct_blockhash") /\ pre' = get_balances(Context, SubscriptionPda, bal)
             ELSE Fails("rpc_error") /\ pre' = pre
    /\ UNCHANGED <<i, post, hash, rent, ledgerVars, fundingVars, devs, observed, txLog>>

DirectBlockhash == FetchBlockhash("direct_blockhash", "direct_send")

DirectSend ==
    /\ SendAndConfirm("direct_send", "direct_post",
          Transaction(DirectPaymentInstruction(SubscriptionPda, Context.buyer, Context.seller,
                                               PaymentAmount),
                      Context.buyer, Context.buyer, hash))
    /\ UNCHANGED i

DirectPost ==
    /\ Running
    /\ pc = "direct_post"
    /\ \E n \in 0..3 :
          /\ Sampled(BalanceReadOrder(Context, SubscriptionPda), n)
          /\ IF n = 3
             THEN LET sample == get_balances(Context, SubscriptionPda, bal)
                  IN  /\ post' = sample
                      /\ IF SellerReceived(pre, sample, PaymentAmount)
                            /\ EscrowUnchanged(pre, sample)
                         THEN /\ Goto(IF i + 1 < TOTAL_PAYMENTS THEN "direct_pre"
                                      ELSE "direct_verify")
                              /\ i' = i + 1
                         ELSE Fails("check_failed") /\ i' = i
             ELSE Fails("rpc_error") /\ post' = post /\ i' = i
    /\ UNCHANGED <<pre, hash, rent, ledgerVars, fundingVars, devs, observed, txLog>>

DirectVerify ==
    /\ Running
    /\ pc = "direct_verify"
    /\ \E ok \in BOOLEAN :
          IF ok /\ Fetchable(SubscriptionPda)
          THEN IF DirectViewOk(EscrowAccountView(SubscriptionPda))
               THEN Goto("cancel_pre")
               ELSE Fails("panic")
          ELSE Fails("rpc_error")
    /\ UNCHANGED <<harnessLocals, ledgerVars, fundingVars, devs, observed, txLog>>

-----------------------------------------------------------------------------
(* Scenario 4: test_cancel_subscription                                    *)

\* The assertions without the one on is_active.
CancelViewOkBalancesOnly(view, before, after) ==
    /\ before.escrow = after.escrow
    /\ before.seller = after.seller

\* The assertions without the two on the balances.
CancelViewOkInactiveOnly(view, before, after) == ~view.is_active

\* assert!(!is_active) and the two assert_eq! on the balances
CancelViewOk(view, before, after) ==
    /\ ~view.is_active
    /\ before.escrow = after.escrow
    /\ before.seller = after.seller

CancelPre ==
    /\ Running
    /\ pc = "cancel_pre"
    /\ \E n \in 0..3 :
          /\ Sampled(BalanceReadOrder(Context, SubscriptionPda), n)
          /\ IF n = 3
             THEN Goto("cancel_blockhash") /\ pre' = get_balances(Context, SubscriptionPda, bal)
             ELSE Fails("rpc_error") /\ pre' = pre
    /\ UNCHANGED <<i, post, hash, rent, ledgerVars, fundingVars, devs, observed, txLog>>

CancelBlockhash == FetchBlockhash("cancel_blockhash", "cancel_send")

CancelSend ==
    /\ SendAndConfirm("cancel_send", "cancel_post",
          Transaction(CancelInstruction(SubscriptionPda, Context.buyer, Context.seller),
                      Context.buyer, Context.buyer, hash))
    /\ UNCHANGED i

CancelPost ==
    /\ Running
    /\ pc = "cancel_post"
    /\ \E n \in 0..3 :
          /\ Sampled(BalanceReadOrder(Context, SubscriptionPda), n)
          /\ IF n = 3
             THEN Goto("cancel_verify") /\ post' = get_balances(Context, SubscriptionPda, bal)
             ELSE Fails("rpc_error") /\ post' = post
    /\ UNCHANGED <<i, pre, hash, rent, ledgerVars, fundingVars, devs, observed, txLog>>

CancelVerify ==
    /\ Running
    /\ pc = "cancel_verify"
    /\ \E ok \in BOOLEAN :
          IF ok /\ Fetchable(SubscriptionPda)
          THEN IF CancelViewOk(EscrowAccountView(SubscriptionPda), pre, post)
               THEN Goto("fw_pre")
               ELSE Fails("panic")
          ELSE Fails("rpc_error")
    /\ UNCHANGED <<harnessLocals, ledgerVars, fundingVars, devs, observed, txLog>>

-----------------------------------------------------------------------------
(* Scenario 5: test_failed_withdrawal                                      *)

\* let acceptable_range = LAMPORTS_PER_SOL / 100
WithdrawalTolerance == LAMPORTS_PER_SOL \div 100

\* The comparison with the upper limit only.
BuyerRefundedUpperOnly(before, after, rent_exemption) ==
    LET expected_buyer_increase == LAMPORTS_PER_SOL * 5 + rent_exemption
    IN  ~(AbsDiff(after.buyer, before.buyer) > expected_buyer_increase + WithdrawalTolerance)

\* buyer_difference within expected_escrow_total + rent_exemption +- 0.01 SOL
BuyerRefunded(before, after, rent_exemption) ==
    LET expected_escrow_total == LAMPORTS_PER_SOL * 5
        expected_buyer_increase == expected_escrow_total + rent_exemption
        buyer_difference == AbsDiff(after.buyer, before.buyer)
    IN  ~(\/ buyer_difference > expected_buyer_increase + WithdrawalTolerance
          \/ buyer_difference < SaturatingSub(expected_buyer_increase, WithdrawalTolerance))

\* The seller's balance required to be unchanged, its fee forgotten.
SellerPaidNothing(before, after) == AbsDiff(before.seller, after.seller) = 0

\* assert!(seller_difference <= max_expected_fee)
SellerPaidOnlyFee(before, after) ==
    AbsDiff(before.seller, after.seller) <= LAMPORTS_PER_SOL \div 100

\* assert_eq!(post_balances.escrow, 0)
EscrowClosed(after) == after.escrow = 0

FwPre ==
    /\ Running
    /\ pc = "fw_pre"
    /\ \E n \in 0..3 :
          /\ Sampled(BalanceReadOrder(Context, SubscriptionPda), n)
          /\ IF n = 3
             THEN Goto("fw_rent") /\ pre' = get_balances(Context, SubscriptionPda, bal)
             ELSE Fails("rpc_error") /\ pre' = pre
    /\ UNCHANGED <<i, post, hash, rent, ledgerVars, fundingVars, devs, observed, txLog>>

\* get_minimum_balance_for_rent_exemption(EscrowAccount::default().try_to_vec()?.len())?
FetchRent(at, next) ==
    /\ Running
    /\ pc = at
    /\ \/ \E quote \in RentQuotes : Goto(next) /\ rent' = quote
       \/ Fails("rpc_error") /\ rent' = rent
    /\ UNCHANGED <<i, pre, post, hash, reads, ledgerVars, fundingVars, devs, observed, txLog>>

FwRent == FetchRent("fw_rent", "fw_blockhash")

FwBlockhash == FetchBlockhash("fw_blockhash", "fw_send")

FwSend ==
    /\ SendAndConfirm("fw_send", "fw_post",
          Transaction(WithdrawInstruction(SubscriptionPda, Context.buyer, Context.seller,
                                          FAILED_VALIDATION_DATA),
                      Context.seller, Context.seller, hash))
    /\ UNCHANGED i

\* The sample after the withdrawal and the three comparisons; on success
\* main calls test_successful_withdrawal, which starts by funding new_buyer.
FwPost ==
    /\ Running
    /\ pc = "fw_post"
    /\ \E n \in 0..3 :
          /\ Sampled(BalanceReadOrder(Context, SubscriptionPda), n)
          /\ IF n = 3
             THEN LET sample == get_balances(Context, SubscriptionPda, bal)
                  IN  /\ post' = sample
                      /\ IF ~BuyerRefunded(pre, sample, rent)
                         THEN Fails("check_failed") /\ fundIdx' = fundIdx
                         ELSE IF SellerPaidOnlyFee(pre, sample) /\ EscrowClosed(sample)
                         THEN Goto("airdrop_request") /\ fundIdx' = 3
                         ELSE Fails("panic") /\ fundIdx' = fundIdx
             ELSE Fails("rpc_error") /\ post' = post /\ fundIdx' = fundIdx
    /\ UNCHANGED <<i, pre, hash, rent, ledgerVars, attempt, poll, pending, credits,
                   nRequests, nPolls, lastPoll, funded, reqFailed, devs, observed, txLog>>

-----------------------------------------------------------------------------
(* Scenario 6: test_successful_withdrawal                                  *)

\* The comparison with the upper limit only.
SellerPaidOutUpperOnly(before, after) ==
    ~(AbsDiff(after.seller, before.seller) > LAMPORTS_PER_SOL * 5 + WithdrawalTolerance)

\* seller_difference within 5 SOL +- 0.01 SOL
SellerPaidOut(before, after) ==
    LET expected_seller_increase == LAMPORTS_PER_SOL * 5
        seller_difference == AbsDiff(after.seller, before.seller)
    IN  ~(\/ seller_difference > expected_seller_increase + WithdrawalTolerance
          \/ seller_difference < SaturatingSub(expected_seller_increase, WithdrawalTolerance))

\* assert!(buyer_difference >= rent_exemption.saturating_sub(acceptable_range))
BuyerGotRent(before, after, rent_exemption) ==
    AbsDiff(after.buyer, before.buyer) >= SaturatingSub(rent_exemption, WithdrawalTolerance)

\* "Verify initial balances": two reads that are only printed
SwInitial ==
    /\ Running
    /\ pc = "sw_initial"
    /\ \E n \in 0..2 :
          /\ Sampled(<<Context2.buyer, Context2.seller>>, n)
          /\ IF n = 2 THEN Goto("sw_start_blockhash") ELSE Fails("rpc_error")
    /\ UNCHANGED <<i, pre, post, hash, rent, ledgerVars, fundingVars, devs, observed, txLog>>

SwStartBlockhash == FetchBlockhash("sw_start_blockhash", "sw_start_send")

SwStartSend ==
    /\ SendAndConfirm("sw_start_send", "sw_pay_blockhash",
          Transaction(StartInstruction(SubscriptionPda2, Context2.buyer, Context2.seller,
                                       SubscriptionId2),
                      Context2.buyer, Context2.buyer, hash))
    /\ i' = 0

SwPayBlockhash == FetchBlockhash("sw_pay_blockhash", "sw_pay_send")

SwPaySend ==
    /\ SendAndConfirm("sw_pay_send",
          IF i + 1 < ESCROWED_PAYMENTS THEN "sw_pay_blockhash" ELSE "sw_cancel_blockhash",
          Transaction(PaymentInstruction(SubscriptionPda2, Context2.buyer, Context2.seller,
                                         PaymentAmount),
                      Context2.buyer, Context2.buyer, hash))
    /\ i' = IF result' = "running" THEN i + 1 ELSE i

SwCancelBlockhash == FetchBlockhash("sw_cancel_blockhash", "sw_cancel_send")

SwCancelSend ==
    /\ SendAndConfirm("sw_cancel_send", "sw_pre",
          Transaction(CancelInstruction(SubscriptionPda2, Context2.buyer, Context2.seller),
                      Context2.buyer, Context2.buyer, hash))
    /\ UNCHANGED i

SwPre ==
    /\ Running
    /\ pc = "sw_pre"
    /\ \E n \in 0..3 :
          /\ Sampled(InlineReadOrder(Context2, SubscriptionPda2), n)
          /\ IF n = 3
             THEN Goto("sw_rent") /\ pre' = get_balances(Context2, SubscriptionPda2, bal)
             ELSE Fails("rpc_error") /\ pre' = pre
    /\ UNCHANGED <<i, post, hash, rent, ledgerVars, fundingVars, devs, observed, txLog>>

SwRent == FetchRent("sw_rent", "sw_wd_blockhash")

SwWithdrawBlockhash == FetchBlockhash("sw_wd_blockhash", "sw_wd_send")

SwWithdrawSend ==
    /\ SendAndConfirm("sw_wd_send", "sw_post",
          Transaction(WithdrawInstruction(SubscriptionPda2, Context2.buyer, Context2.seller,
                                          VALID_VALIDATION_DATA),
                      Context2.seller, Context2.seller, hash))
    /\ UNCHANGED i

\* The sample after the withdrawal and the three comparisons; on success
\* the scenario and main return Ok(()).
SwPost ==
    /\ Running
    /\ pc = "sw_post"
    /\ \E n \in 0..3 :
          /\ Sampled(InlineReadOrder(Context2, SubscriptionPda2), n)
          /\ IF n = 3
             THEN LET sample == get_balances(Context2, SubscriptionPda2, bal)
                  IN  /\ post' = sample
                      /\ IF ~SellerPaidOut(pre, sample)
                         THEN Fails("check_failed")
                         ELSE IF BuyerGotRent(pre, sample, rent) /\ EscrowClosed(sample)
                         THEN pc' = "done" /\ result' = "ok" /\ failed' = failed
                         ELSE Fails("panic")
             ELSE Fails("rpc_error") /\ post' = post
    /\ UNCHANGED <<i, pre, hash, rent, ledgerVars, fundingVars, devs, observed, txLog>>

Next ==
    \/ AirdropRequest
    \/ AirdropConfirm
    \/ AirdropBalance
    \/ FaucetCredit
    \/ SetupVerify
    \/ InitialBalances
    \/ StartBlockhash
    \/ StartSend
    \/ StartVerify
    \/ PayPre
    \/ PayBlockhash
    \/ PaySend
    \/ PayPost
    \/ PayVerify
    \/ DirectPre
    \/ DirectBlockhash
    \/ DirectSend
    \/ DirectPost
    \/ DirectVerify
    \/ CancelPre
    \/ CancelBlockhash
    \/ CancelSend
    \/ CancelPost
    \/ CancelVerify
    \/ FwPre
    \/ FwRent
    \/ FwBlockhash
    \/ FwSend
    \/ FwPost
    \/ SwInitial
    \/ SwStartBlockhash
    \/ SwStartSend
    \/ SwPayBlockhash
    \/ SwPaySend
    \/ SwCancelBlockhash
    \/ SwCancelSend
    \/ SwPre
    \/ SwRent
    \/ SwWithdrawBlockhash
    \/ SwWithdrawSend
    \/ SwPost

Spec == Init /\ [][Next]_vars

\* The scheduler runs the one harness thread until main returns, and the
\* faucet while it has an accepted request to execute.
FairSpec == Spec /\ WF_vars(Next)

-----------------------------------------------------------------------------
(* Positions                                                               *)

FundingPcs == {"airdrop_request", "airdrop_confirm", "airdrop_balance"}

InFunding == Running /\ pc \in FundingPcs

\* The scenario a position belongs to: 0 is setup with the initial sample,
\* 1..6 are the six test functions in the order main calls them, 7 is the
\* return of main.
ScenarioNow ==
    CASE pc \in FundingPcs -> IF fundIdx \in {1, 2} THEN 0 ELSE 6
      [] pc \in {"setup_verify", "initial_balances"} -> 0
      [] pc \in {"start_blockhash", "start_send", "start_verify"} -> 1
      [] pc \in {"pay_pre", "pay_blockhash", "pay_send", "pay_post", "pay_verify"} -> 2
      [] pc \in {"direct_pre", "direct_blockhash", "direct_send", "direct_post",
                 "direct_verify"} -> 3
      [] pc \in {"cancel_pre", "cancel_blockhash", "cancel_send", "cancel_post",
                 "cancel_verify"} -> 4
      [] pc \in {"fw_pre", "fw_rent", "fw_blockhash", "fw_send", "fw_post"} -> 5
      [] pc = "done" -> 7
      [] OTHER -> 6

\* The methods of the transactions of a whole run, in order.
PlanMethods ==
    <<"start_subscription",
      "make_payment", "make_payment", "make_payment", "make_payment", "make_payment",
      "make_payment", "make_payment",
      "cancel_subscription", "withdraw_funds",
      "start_subscription",
      "make_payment", "make_payment", "make_payment", "make_payment", "make_payment",
      "cancel_subscription", "withdraw_funds">>

\* How many transactions the scenarios before scenario k submit.
TxBefore(k) ==
    CASE k <= 1 -> 0 [] k = 2 -> 1 [] k = 3 -> 6 [] k = 4 -> 8 [] k = 5 -> 9
      [] k = 6 -> 10 [] OTHER -> 18

MethodsSubmitted == [k \in 1..Len(txLog) |-> MethodOf(txLog[k].instruction)]

FundedAddrs == {f.addr : f \in funded}

\* The funding request of this step was refused by the transport.
RequestRefusedNow == nRequests' = nRequests + 1 /\ pending' = pending

\* An operation of this step failed: a refused funding request, or a failure
\* the harness does not retry.
FailsNow == RequestRefusedNow \/ (failed' /\ ~failed)

-----------------------------------------------------------------------------
(* C1: the scenarios run in the fixed order, each after the success of the *)
(* earlier ones, and nothing is started or submitted after a failure.      *)

\* C1 as stated: the scenarios run in the order setup, start, five escrowed
\* payments, two direct payments, cancel, failed withdrawal, successful
\* withdrawal, and after the first failed RPC or failed comparison no
\* scenario is started and no transaction is submitted.
C1_AsStated ==
    [][(failed \/ reqFailed) => (txLog' = txLog /\ ScenarioNow' = ScenarioNow)]_vars

\* C1 amended: the same, where a failed RPC is any failed RPC other than a
\* refused funding request (which request_airdrop_with_confirmation retries).
C1_ScenarioOrder ==
    /\ [](/\ Len(txLog) <= Len(PlanMethods)
          /\ MethodsSubmitted = SubSeq(PlanMethods, 1, Len(txLog))
          /\ Len(txLog) >= TxBefore(ScenarioNow)
          /\ Len(txLog) <= TxBefore(ScenarioNow + 1))
    /\ [][ScenarioNow' \in {ScenarioNow, ScenarioNow + 1}]_vars
    /\ [][ScenarioNow' = ScenarioNow + 1
            => (~failed' /\ result' \in {"running", "ok"}
                 /\ Len(txLog') = TxBefore(ScenarioNow'))]_vars
    /\ [][failed => (txLog' = txLog /\ ScenarioNow' = ScenarioNow)]_vars

\* The run reached the last scenario's withdrawal: every scenario before it passed.
C1_Witness == pc = "sw_post" /\ Running /\ Len(txLog) = 18

-----------------------------------------------------------------------------
(* C2: one funding call issues at most 3 requests and at most 32 polls per *)
(* accepted request, and terminates.                                       *)

\* An upper bound on the steps the harness still takes inside the current
\* funding call: 65 per remaining attempt (the request, 32 polls and 32
\* balance reads), less the steps taken in the current attempt.
FundingSteps ==
    (3 - attempt) * 65
      - (CASE pc = "airdrop_request" -> 0
           [] pc = "airdrop_confirm" -> 1 + 2 * poll
           [] OTHER                  -> 2 + 2 * poll)

\* C2: for any behaviour of the faucet and of confirmation, a funding call
\* issues at most 3 funding requests and at most 32 confirmation polls per
\* accepted request, starts a new attempt only when the request was refused
\* or the 32 polls are used up, and terminates: every step inside the call
\* lowers a non-negative measure, and under fair scheduling the call ends.
C2_FundingBounded ==
    /\ [](nRequests <= 3 /\ nPolls <= 32)
    /\ [](InFunding => FundingSteps >= 0 /\ pending >= 0)
    /\ [][(InFunding /\ attempt' = attempt + 1 /\ fundIdx' = fundIdx)
            => (RequestRefusedNow \/ nPolls' = 32)]_vars
    /\ [][(InFunding /\ InFunding' /\ fundIdx' = fundIdx)
            => 2 * FundingSteps' + pending' < 2 * FundingSteps + pending]_vars
    /\ \A k \in 1..4 : (InFunding /\ fundIdx = k) ~> ~(InFunding /\ fundIdx = k)

\* The third attempt of a funding call is polling for the 32nd time.
C2_Witness == InFunding /\ nRequests = 3 /\ nPolls = 32

-----------------------------------------------------------------------------
(* C3: funding succeeds only on a positive confirmation followed by a      *)
(* balance read of at least the requested amount.                          *)

\* The harness read the balance in this step and found it below the amount.
LowBalanceReadNow ==
    /\ InFunding /\ pc = "airdrop_balance"
    /\ bal[FundTarget(fundIdx)] < FundAmount(fundIdx)
    /\ <<pc, result, attempt, poll>>' # <<pc, result, attempt, poll>>
    /\ result' # "rpc_error"

\* C3: request_airdrop_with_confirmation returns Ok only if the latest poll
\* reported the request confirmed and the balance read after it was at least
\* the requested amount; a positive confirmation with a lower balance does
\* not end the call: the next poll follows while polls remain.
C3_FundedOnlyWhenConfirmedAndVisible ==
    /\ [](\A f \in funded : f.confirmed /\ f.balance >= f.amount)
    /\ [][LowBalanceReadNow
            => /\ funded' = funded
               /\ fundIdx' = fundIdx
               /\ (poll + 1 < 32
                     => (result' = "running" /\ pc' = "airdrop_confirm"
                          /\ poll' = poll + 1 /\ attempt' = attempt))]_vars

\* A poll was positive while the credit was not visible yet, and the call
\* went on polling.
C3_Witness ==
    /\ InFunding /\ pc = "airdrop_confirm" /\ poll > 0
    /\ lastPoll.confirmed /\ lastPoll.balance < FundAmount(fundIdx)

-----------------------------------------------------------------------------
(* C4: funding is a hard precondition of every scenario transaction.       *)

\* C4: when the 3 attempts of a funding call of setup are used up the call
\* returns an error and the run ends without any transaction; a scenario
\* transaction is submitted only after the funding calls of buyer and seller
\* returned Ok and setup read both balances as at least 1 SOL.
C4_FundingIsPrecondition ==
    /\ [](attempt >= 3 => (result = "funding_failed" /\ nRequests = 3))
    /\ [](result = "funding_failed" => Len(txLog) \in {0, 10})
    /\ [](result = "funding_failed" /\ fundIdx \in {1, 2} => txLog = <<>>)
    /\ [](txLog # <<>> => ({Buyer, Seller} \subseteq FundedAddrs /\ observed = {Buyer, Seller}))
    /\ [][result = "funding_failed" => UNCHANGED vars]_vars

\* Funding of the buyer ran out of attempts.
C4_Witness == result = "funding_failed" /\ fundIdx = 1 /\ attempt = 3

-----------------------------------------------------------------------------
(* C5: a refused funding request is retried.                               *)

\* C5: when the transport refuses the funding request and attempts remain,
\* the run goes on and the next step of the call is the next request.
C5_RefusedRequestIsRetried ==
    [][(InFunding /\ RequestRefusedNow /\ attempt + 1 < 3)
         => (result' = "running" /\ pc' = "airdrop_request" /\ attempt' = attempt + 1
              /\ fundIdx' = fundIdx /\ ~failed')]_vars

\* A request was refused and a later request of the run was accepted.
C5_Witness == reqFailed /\ Running /\ pc = "airdrop_confirm"

-----------------------------------------------------------------------------
(* C6: errors are propagated.                                              *)

\* C6 as stated: no error is caught anywhere: the first failing operation,
\* whatever it is, ends the run.
C6_AsStated == [][FailsNow => result' \notin {"running", "ok"}]_vars

\* C6 amended: apart from a refused funding request, which is logged and
\* retried, the first failing operation ends the run with an error and no
\* step follows it.
C6_ErrorsPropagate ==
    /\ [](failed <=> result \notin {"running", "ok"})
    /\ [][~failed]_vars

\* The run ended on a failed comparison of a scenario.
C6_Witness == failed /\ result = "check_failed" /\ pc = "pay_post"

-----------------------------------------------------------------------------
(* C7: the account after start_subscription.                               *)

\* C7: in the state in which test_start_subscription has returned Ok, the
\* escrow account has payment_count = 0, is_active = true, and the seller,
\* buyer and subscription id of the call.
C7_StartedAccount ==
    (Running /\ pc = "pay_pre" /\ i = 0)
      => /\ acct[SubscriptionPda].exists
         /\ acct[SubscriptionPda].payment_count = 0
         /\ acct[SubscriptionPda].is_active
         /\ acct[SubscriptionPda].seller = Seller
         /\ acct[SubscriptionPda].buyer = Buyer
         /\ acct[SubscriptionPda].subscription_id = SubscriptionId

C7_Witness ==
    /\ Running /\ pc = "pay_pre" /\ i = 0 /\ Len(txLog) = 1
    /\ acct[SubscriptionPda].is_active /\ acct[SubscriptionPda].payment_count = 0

-----------------------------------------------------------------------------
(* C8: the escrowed payments.                                              *)

InPayments == pc \in {"pay_pre", "pay_blockhash", "pay_send", "pay_post", "pay_verify"}

\* The payments the escrow program has executed in the payments scenario.
PaymentsExecuted == IF pc = "pay_post" THEN i + 1 ELSE i

\* C8: while the escrow program follows its contract, after N escrowed
\* payments of amount A (N up to 5) payment_count = N and total_amount =
\* N * A, every payment raised the escrow balance by A within the band and
\* left the seller's balance unchanged, and the harness accepted it; when
\* the scenario has returned Ok, payment_count = 5 and total_amount = 5 * A
\* whatever the program did.
C8_EscrowedPayments ==
    /\ (InPayments /\ devs = 0 /\ result \in {"running", "check_failed", "panic"})
         => /\ result = "running"
            /\ acct[SubscriptionPda].payment_count = PaymentsExecuted
            /\ acct[SubscriptionPda].total_amount = PaymentsExecuted * PaymentAmount
            /\ (i >= 1 /\ pc \in {"pay_pre", "pay_verify"})
                 => /\ post.escrow - pre.escrow >= PaymentAmount - 10
                    /\ post.escrow - pre.escrow <= PaymentAmount + 10
                    /\ post.seller = pre.seller
    /\ (Running /\ pc = "direct_pre" /\ i = 5)
         => /\ acct[SubscriptionPda].payment_count = 5
            /\ acct[SubscriptionPda].total_amount = 5 * PaymentAmount

\* Five escrowed payments were made and accepted.
C8_Witness ==
    /\ Running /\ pc = "pay_verify" /\ i = 5 /\ devs = 0
    /\ post.escrow - pre.escrow = PaymentAmount
    /\ acct[SubscriptionPda].total_amount = 5 * PaymentAmount

-----------------------------------------------------------------------------
(* C9 and C10: the direct payments.                                        *)

DirectAccepted ==
    Running /\ ((pc = "direct_pre" /\ i = 6) \/ pc \in {"direct_verify", "cancel_pre"})

C10_CountIsSeven ==
    /\ (Running /\ pc \in {"cancel_pre", "cancel_blockhash", "cancel_send"})
         => acct[SubscriptionPda].payment_count = 7
    /\ (pc = "direct_verify" /\ result = "panic")
         => acct[SubscriptionPda].payment_count # 7

\* The direct-payment scenario returned Ok.
C10_Witness ==
    Running /\ pc = "cancel_pre" /\ Len(txLog) = 8 /\ acct[SubscriptionPda].payment_count = 7

-----------------------------------------------------------------------------
(* The transaction of a step                                               *)

\* The step submitted a transaction and the ledger executed it.
ExecutedNow == txLog' # txLog /\ tip' # tip

\* The instruction submitted by the step, and the escrow account it names.
IxNow == txLog'[Len(txLog')].instruction

MethodNow == MethodOf(IxNow)

AccountNow == IxEscrow(IxNow)

\* The payments of a subscription that went to the escrow account.
EscrowedCount(account) ==
    IF account.payment_count < ESCROWED_PAYMENTS THEN account.payment_count
    ELSE ESCROWED_PAYMENTS

-----------------------------------------------------------------------------
(* C11: total_amount and payment_count while active.                       *)

-----------------------------------------------------------------------------
(* C12: payment_count over the operations of an account.                   *)

\* The step executed a payment that the program sent straight to the seller.
DirectPaymentNow ==
    ExecutedNow /\ MethodNow = "make_payment" /\ ~Escrowed(acct[AccountNow])

-----------------------------------------------------------------------------
(* C13: is_active.                                                         *)

\* The transactions submitted so far that name escrow account `a`.
TxOn(a) == {k \in 1..Len(txLog) : IxEscrow(txLog[k].instruction) = a}

\* The harness is between the return of test_cancel_subscription and the
\* submission of the withdrawal of the first lifecycle.
CancelReturned == Running /\ pc \in {"fw_pre", "fw_rent", "fw_blockhash", "fw_send"}

\* C13: is_active of an account goes from true to false only in a step that
\* executes cancel_subscription on it; an account that is stored inactive
\* stays inactive; is_active becomes true only by the first transaction
\* naming the account, its start_subscription, so it is never true again
\* after the cancellation; once test_cancel_subscription returned Ok the
\* account reads inactive until the withdrawal.
C13_ActiveOnce ==
    /\ [][\A a \in Pdas :
            (acct[a].is_active /\ ~acct'[a].is_active)
              => (ExecutedNow /\ MethodNow = "cancel_subscription" /\ AccountNow = a)]_vars
    /\ [][\A a \in Pdas :
            (acct[a].exists /\ ~acct[a].is_active) => ~acct'[a].is_active]_vars
    /\ [][\A a \in Pdas :
            (~acct[a].is_active /\ acct'[a].is_active)
              => (ExecutedNow /\ MethodNow = "start_subscription" /\ AccountNow = a
                   /\ TxOn(a) = {})]_vars
    /\ [](CancelReturned
            => (acct[SubscriptionPda].exists /\ ~acct[SubscriptionPda].is_active))

\* test_cancel_subscription returned Ok on an account that was active.
C13_Witness ==
    /\ Running /\ pc = "fw_pre" /\ Len(txLog) = 9
    /\ acct[SubscriptionPda].exists /\ ~acct[SubscriptionPda].is_active

-----------------------------------------------------------------------------
(* C14: the effect of cancel_subscription.                                 *)

\* C14: once test_cancel_subscription returned Ok the account is inactive
\* and the escrow and seller balances sampled after the cancellation equal
\* those sampled before it; a cancellation executed by a program that
\* follows its contract leaves the account inactive, both balances as they
\* were, and is never rejected by the harness.
C14_CancelFrame ==
    /\ (Running /\ pc = "fw_pre")
         => /\ ~acct[SubscriptionPda].is_active
            /\ post.escrow = pre.escrow
            /\ post.seller = pre.seller
    /\ (pc \in {"cancel_post", "cancel_verify"} /\ devs = 0)
         => /\ ~acct[SubscriptionPda].is_active
            /\ bal[SubscriptionPda] = pre.escrow
            /\ bal[Seller] = pre.seller
            /\ result # "panic"

\* The cancellation was executed and verified.
C14_Witness ==
    /\ Running /\ pc = "fw_pre" /\ devs = 0
    /\ post.escrow = pre.escrow /\ post.escrow >= 5 * PaymentAmount

-----------------------------------------------------------------------------
(* C15: the withdrawal above the threshold.                                *)

\* test_failed_withdrawal has returned Ok (and nothing of the second
\* lifecycle has been submitted yet).
FailedWithdrawalReturned ==
    /\ result \in {"running", "funding_failed", "rpc_error"}
    /\ Len(txLog) = 10
    /\ pc \notin {"fw_send", "fw_post"}

\* C15: the withdrawal of the first lifecycle carries validation data 2000,
\* above the threshold 1000 of the account; once test_failed_withdrawal
\* returned Ok the buyer's balance changed by 5 SOL plus the rent reserve
\* within 0.01 SOL, the seller's by at most 0.01 SOL, and the escrow balance
\* read 0; a program that follows its contract refunds exactly the balance of
\* the account (5 SOL and the deposit) to the buyer, charges the seller the
\* fee only, closes the account, and is accepted by the harness.
C15_RefundAboveThreshold ==
    /\ FailedWithdrawalReturned
         => /\ U64Arg(txLog[10].instruction) = 2000
            /\ DEFAULT_VALIDATION_THRESHOLD = 1000
            /\ AbsDiff(post.buyer, pre.buyer) <= 5 * LAMPORTS_PER_SOL + rent + WithdrawalTolerance
            /\ AbsDiff(post.buyer, pre.buyer) >= 5 * LAMPORTS_PER_SOL + rent - WithdrawalTolerance
            /\ AbsDiff(post.seller, pre.seller) <= WithdrawalTolerance
            /\ post.escrow = 0
    /\ (pc = "fw_post" /\ devs = 0)
         => /\ pre.escrow >= 5 * LAMPORTS_PER_SOL
            /\ bal[Buyer] - pre.buyer = pre.escrow
            /\ pre.seller - bal[Seller] \in Fees
            /\ bal[SubscriptionPda] = 0
            /\ ~acct[SubscriptionPda].exists
            /\ result \notin {"check_failed", "panic"}

\* The refund was made and accepted.
C15_Witness ==
    /\ FailedWithdrawalReturned /\ Running /\ devs = 0
    /\ post.buyer - pre.buyer = pre.escrow /\ pre.escrow > 5 * LAMPORTS_PER_SOL
    /\ post.escrow = 0

-----------------------------------------------------------------------------
(* C16: the withdrawal at or below the threshold.                          *)

\* C16: the withdrawal of the second lifecycle carries validation data 500,
\* below the threshold 1000; once test_successful_withdrawal returned Ok
\* the seller's balance changed by 5 SOL within 0.01 SOL and the escrow
\* balance read 0; a program that follows its contract pays total_amount
\* (5 SOL) to the seller, who pays the fee, refunds the rest of the
\* account's balance, its rent reserve, to the buyer, and closes the
\* account; it takes this route for every validation data that is not above
\* the threshold, the threshold itself included.
C16_PayoutAtOrBelowThreshold ==
    /\ result = "ok"
         => /\ U64Arg(txLog[18].instruction) = 500
            /\ AbsDiff(post.seller, pre.seller) <= 5 * LAMPORTS_PER_SOL + WithdrawalTolerance
            /\ AbsDiff(post.seller, pre.seller) >= 5 * LAMPORTS_PER_SOL - WithdrawalTolerance
            /\ post.escrow = 0
    /\ (pc \in {"sw_post", "done"} /\ devs = 0)
         => /\ 5 * LAMPORTS_PER_SOL - (bal[NewSeller] - pre.seller) \in Fees
            /\ bal[NewBuyer] - pre.buyer = pre.escrow - 5 * LAMPORTS_PER_SOL
            /\ bal[NewBuyer] - pre.buyer \in RentDeposits
            /\ bal[SubscriptionPda2] = 0
            /\ ~acct[SubscriptionPda2].exists
            /\ result \notin {"check_failed", "panic"}
    /\ \A deposit \in RentDeposits :
       \A data \in {DEFAULT_VALIDATION_THRESHOLD - 1, DEFAULT_VALIDATION_THRESHOLD,
                    DEFAULT_VALIDATION_THRESHOLD + 1} :
          LET ix == WithdrawInstruction(SubscriptionPda2, NewBuyer, NewSeller, data)
              stored == [acct EXCEPT ![SubscriptionPda2].validation_threshold =
                                         DEFAULT_VALIDATION_THRESHOLD,
                                     ![SubscriptionPda2].total_amount = 5 * LAMPORTS_PER_SOL]
              held == [bal EXCEPT ![SubscriptionPda2] = 5 * LAMPORTS_PER_SOL + deposit]
              mv == Moves(ix, "ok", stored, held, 0)
          IN  IF data <= DEFAULT_VALIDATION_THRESHOLD
              THEN mv.seller = 5 * LAMPORTS_PER_SOL /\ mv.buyer = deposit
              ELSE mv.seller = 0 /\ mv.buyer = 5 * LAMPORTS_PER_SOL + deposit

\* The payout was made and accepted, and main returned Ok.
C16_Witness ==
    /\ result = "ok" /\ devs = 0
    /\ 5 * LAMPORTS_PER_SOL - (post.seller - pre.seller) \in Fees
    /\ post.buyer - pre.buyer \in RentDeposits

-----------------------------------------------------------------------------
(* C17: the life of an escrow account.                                     *)

\* The methods of the transactions in `log` that name account `a`, as a set
\* of positions in the log.
MethodAt(log, a, m) ==
    {k \in 1..Len(log) : IxEscrow(log[k].instruction) = a /\ MethodOf(log[k].instruction) = m}

\* Uninitialized, Active, Inactive or Closed: an address without an account
\* is Closed once a withdrawal was submitted for it, Uninitialized before.
PhaseOf(accounts, log, a) ==
    IF accounts[a].exists
    THEN IF accounts[a].is_active THEN "Active" ELSE "Inactive"
    ELSE IF MethodAt(log, a, "withdraw_funds") # {} THEN "Closed" ELSE "Uninitialized"

Lifecycle ==
    {<<"Uninitialized", "start_subscription", "Active">>,
     <<"Active", "cancel_subscription", "Inactive">>,
     <<"Inactive", "withdraw_funds", "Closed">>}

\* The step submitted a transaction, executed or not.
SubmittedNow == txLog' # txLog

\* C17: while the program follows its contract an account changes phase
\* only along Uninitialized -> Active -> Inactive -> Closed, by start,
\* cancel and withdraw; a payment is executed only on an Active account, a
\* cancel only on an Active one, a withdraw only on an Inactive one; a
\* Closed account has balance 0 and no step changes it; the harness submits
\* a payment or a cancel only after the start of the account, a withdraw
\* only after its cancel, and nothing to an account after its withdrawal:
\* the first ten transactions name the account of the first lifecycle, the
\* others the account of the second.
C17_AccountLifecycle ==
    /\ [][\A a \in Pdas :
            (devs' = 0 /\ PhaseOf(acct', txLog', a) # PhaseOf(acct, txLog, a))
              => /\ ExecutedNow /\ AccountNow = a
                 /\ <<PhaseOf(acct, txLog, a), MethodNow, PhaseOf(acct', txLog', a)>>
                      \in Lifecycle]_vars
    /\ [][ExecutedNow
            => PhaseOf(acct, txLog, AccountNow)
                 = (CASE MethodNow = "start_subscription" -> "Uninitialized"
                      [] MethodNow = "withdraw_funds" -> "Inactive"
                      [] OTHER -> "Active")]_vars
    /\ [][\A a \in Pdas :
            PhaseOf(acct, txLog, a) = "Closed"
              => (acct'[a] = acct[a] /\ bal'[a] = bal[a] /\ ~(SubmittedNow /\ AccountNow = a))]_vars
    /\ [](\A a \in Pdas : PhaseOf(acct, txLog, a) = "Closed" => bal[a] = 0)
    /\ [][SubmittedNow
            => /\ MethodAt(txLog, AccountNow, "withdraw_funds") = {}
               /\ MethodNow = "start_subscription" => TxOn(AccountNow) = {}
               /\ MethodNow # "start_subscription"
                    => (MethodAt(txLog, AccountNow, "start_subscription") # {}
                         /\ acct[AccountNow].exists)
               /\ MethodNow = "make_payment"
                    => MethodAt(txLog, AccountNow, "cancel_subscription") = {}
               /\ MethodNow = "withdraw_funds"
                    => MethodAt(txLog, AccountNow, "cancel_subscription") # {}]_vars
    /\ [](\A k \in 1..Len(txLog) :
            IxEscrow(txLog[k].instruction) = IF k <= 10 THEN SubscriptionPda ELSE SubscriptionPda2)

\* Both accounts went through their whole life.
C17_Witness ==
    /\ result = "ok" /\ devs = 0
    /\ PhaseOf(acct, txLog, SubscriptionPda) = "Closed"
    /\ PhaseOf(acct, txLog, SubscriptionPda2) = "Closed"

-----------------------------------------------------------------------------
(* C18: account lists and signers.                                         *)

\* The buyer and the seller of the lifecycle transaction k belongs to.
PartiesOf(k) == IF k <= 10 THEN Context ELSE Context2

\* C18: every submitted transaction carries one instruction whose account
\* list is [escrow account (writable), buyer, seller, system program
\* (read-only)], none but the signing party flagged as signer; start,
\* payment and cancel flag the buyer (writable) as signer and are signed and
\* fee-paid by the buyer alone, with the seller read-only for start and
\* writable for payment and cancel; withdraw flags the seller (writable) as
\* signer, the buyer writable and not a signer, and is signed and fee-paid
\* by the seller alone.
C18_AccountListsAndSigners ==
    \A k \in 1..Len(txLog) :
       LET tx == txLog[k]
           m == MethodOf(tx.instruction)
           list == tx.instruction.accounts
           party == PartiesOf(k)
           withdraw == m = "withdraw_funds"
       IN  /\ Len(list) = 4
           /\ list[1] = [addr |-> IF k <= 10 THEN SubscriptionPda ELSE SubscriptionPda2,
                         writable |-> TRUE, signer |-> FALSE]
           /\ list[2] = [addr |-> party.buyer, writable |-> TRUE, signer |-> ~withdraw]
           /\ list[3] = [addr |-> party.seller, writable |-> m # "start_subscription",
                         signer |-> withdraw]
           /\ list[4] = [addr |-> SystemProgram, writable |-> FALSE, signer |-> FALSE]
           /\ tx.signers = {IF withdraw THEN party.seller ELSE party.buyer}
           /\ tx.payer = (IF withdraw THEN party.seller ELSE party.buyer)
           /\ {list[n].addr : n \in {n \in 1..4 : list[n].signer}} = tx.signers

\* All eighteen transactions were submitted, both withdrawals included.
C18_Witness ==
    /\ Len(txLog) = 18
    /\ MethodOf(txLog[10].instruction) = "withdraw_funds"
    /\ txLog[10].signers = {Seller} /\ txLog[9].signers = {Buyer}
    /\ txLog[18].payer = NewSeller

-----------------------------------------------------------------------------
(* C19: the order of the reads of get_balances.                            *)

\* The positions at which the harness calls TestContext::get_balances.
GetBalancesPcs ==
    {"initial_balances", "pay_pre", "pay_post", "direct_pre", "direct_post",
     "cancel_pre", "cancel_post", "fw_pre", "fw_post"}

IsPrefix(s, t) == Len(s) <= Len(t) /\ s = SubSeq(t, 1, Len(s))

\* The step is a call of get_balances that made the reads `order`, up to
\* the first read that failed.
GetBalancesReads(order) ==
    (pc \in GetBalancesPcs /\ Running)
      => /\ reads' # <<>>
         /\ IsPrefix(reads', order)
         /\ result' = "running" => reads' = order

\* C19 as stated: every call of get_balances reads the seller, then the
\* escrow account, then the buyer.
C19_AsStated == [][GetBalancesReads(<<Seller, SubscriptionPda, Buyer>>)]_vars

\* C19 amended: every call of get_balances reads the seller, then the
\* buyer, then the escrow account, and stops at the first read that fails.
C19_ReadOrder == [][GetBalancesReads(<<Seller, Buyer, SubscriptionPda>>)]_vars

\* A call of get_balances has made its three reads.
C19_Witness ==
    /\ Running /\ pc = "pay_blockhash"
    /\ reads = <<Seller, Buyer, SubscriptionPda>>
    /\ pre = [seller |-> bal[Seller], escrow |-> bal[SubscriptionPda], buyer |-> bal[Buyer]]

-----------------------------------------------------------------------------
(* C20: one blockhash and one submission per transaction.                  *)

\* The positions at which the harness fetches the latest blockhash, and
\* those at which it submits a transaction.
BlockhashPcs ==
    {"start_blockhash", "pay_blockhash", "direct_blockhash", "cancel_blockhash",
     "fw_blockhash", "sw_start_blockhash", "sw_pay_blockhash", "sw_cancel_blockhash",
     "sw_wd_blockhash"}

SendPcs ==
    {"start_send", "pay_send", "direct_send", "cancel_send", "fw_send",
     "sw_start_send", "sw_pay_send", "sw_cancel_send", "sw_wd_send"}

\* C20: the harness reaches a submission only through a successful fetch of
\* the latest blockhash, a fetch is always followed by that submission, and
\* the blockhash changes at no other step: one fetch per submission; the
\* transaction carries the blockhash just fetched, which is the ledger's
\* latest and was fetched after the previous transaction was executed (the
\* k-th transaction carries the k-th blockhash); every step at a submission
\* submits exactly one transaction; after a failed submission the run has
\* ended with an error and nothing is submitted again.
C20_OneBlockhashOneSubmission ==
    /\ [][(pc' \in SendPcs /\ pc' # pc)
            => (pc \in BlockhashPcs /\ hash' = tip /\ txLog' = txLog)]_vars
    /\ [][hash' # hash => (pc \in BlockhashPcs /\ pc' \in SendPcs)]_vars
    /\ [][(pc \in BlockhashPcs)
            => (txLog' = txLog /\ (pc' \in SendPcs \/ (pc' = pc /\ result' = "rpc_error")))]_vars
    /\ [][SubmittedNow
            => /\ pc \in SendPcs /\ Running
               /\ txLog' = Append(txLog, txLog'[Len(txLog')])
               /\ txLog'[Len(txLog')].blockhash = hash
               /\ hash = tip
               /\ pc' \notin SendPcs \/ (pc' = pc /\ result' = "rpc_error")]_vars
    /\ [][(pc \in SendPcs /\ Running) => SubmittedNow]_vars
    /\ [](\A k \in 1..Len(txLog) : txLog[k].blockhash = k)
    /\ []((pc \in SendPcs /\ ~Running) => (result = "rpc_error" /\ failed))
    /\ [][~Running => txLog' = txLog]_vars

\* A submission failed after others had been executed.
C20_Witness ==
    /\ pc = "cancel_send" /\ result = "rpc_error" /\ Len(txLog) = 9
    /\ txLog[9].blockhash = 9 /\ tip = 9

-----------------------------------------------------------------------------
(* C21: a run against a program that follows its contract.                 *)

\* No RPC call of the run has failed so far.
EveryRpcSucceeded == ~reqFailed /\ result # "rpc_error"

\* The harness rejected what it observed.
Rejected == result \in {"check_failed", "panic"}

-----------------------------------------------------------------------------
(* C22: the escrow address is derived from the identities that sign.       *)

\* C22: the derived address is a function of (buyer, seller, subscription
\* id), different triples giving different addresses; every transaction of
\* the five scenarios of the first lifecycle names one and the same escrow
\* address, the one derived from the first buyer, the first seller and
\* the subscription id of main; and every transaction names the address derived
\* from the buyer and seller of its own account list, one of whom is its
\* only signer.
C22_AddressOfSigningTriple ==
    /\ \A b1 \in Keys, s1 \in Keys, id1 \in SubIds, b2 \in Keys, s2 \in Keys, id2 \in SubIds :
          (FindProgramAddress(<<"escrow", b1, s1, id1>>)
             = FindProgramAddress(<<"escrow", b2, s2, id2>>))
            <=> (<<b1, s1, id1>> = <<b2, s2, id2>>)
    /\ \A k \in 1..Len(txLog) :
          LET ix == txLog[k].instruction
              id == IF k <= 10 THEN SubscriptionId ELSE SubscriptionId2
          IN  /\ IxEscrow(ix) = FindProgramAddress(<<"escrow", IxBuyer(ix), IxSeller(ix), id>>)
              /\ txLog[k].signers \subseteq {IxBuyer(ix), IxSeller(ix)}
              /\ txLog[k].signers # {}
              /\ <<IxBuyer(ix), IxSeller(ix)>> = <<PartiesOf(k).buyer, PartiesOf(k).seller>>
              /\ (k <= 10) => (IxEscrow(ix) = IxEscrow(txLog[1].instruction))

\* The five scenarios of the first lifecycle have submitted their ten
\* transactions.
C22_Witness ==
    /\ Len(txLog) = 10 /\ Running
    /\ MethodOf(txLog[10].instruction) = "withdraw_funds"

-----------------------------------------------------------------------------
(* C23: the second lifecycle leaves the first alone.                       *)

\* C23: the transactions of the final scenario name the account derived
\* from the fresh buyer and seller and "premium_content_2", started under
\* that id; the fresh identities and that account differ from the first
\* buyer, seller and account; and no step of the final scenario, of the
\* harness, the faucet or the program, changes the state or balance of the
\* first account or the balance of the first buyer or first seller.
C23_SecondLifecycleIsSeparate ==
    /\ [](/\ SubscriptionPda2 # SubscriptionPda
          /\ {Context2.buyer, Context2.seller} \cap {Context.buyer, Context.seller} = {}
          /\ \A k \in 11..Len(txLog) :
                /\ IxEscrow(txLog[k].instruction) = SubscriptionPda2
                /\ IxBuyer(txLog[k].instruction) \notin {Buyer, Seller}
                /\ IxSeller(txLog[k].instruction) \notin {Buyer, Seller}
                /\ txLog[k].signers \cap {Buyer, Seller} = {}
          /\ Len(txLog) >= 11 => StartIdArg(txLog[11].instruction) = SubscriptionId2)
    /\ [][(ScenarioNow = 6)
            => /\ acct'[SubscriptionPda] = acct[SubscriptionPda]
               /\ bal'[SubscriptionPda] = bal[SubscriptionPda]
               /\ bal'[Buyer] = bal[Buyer]
               /\ bal'[Seller] = bal[Seller]]_vars

\* The final scenario ran its whole second lifecycle, which moved the fresh
\* identities' balances, and ended with success.
C23_Witness ==
    /\ result = "ok" /\ Len(txLog) = 18
    /\ post.seller # pre.seller

-----------------------------------------------------------------------------
(* C24: the payload of a call.                                             *)

\* C24: the payload of every submitted call is the 8-byte selector of its
\* method followed by the borsh bytes of its arguments and nothing else:
\* for start_subscription the 4-byte length of the id, the id's bytes and
\* the 8-byte threshold 1000; for make_payment the 8 bytes of the amount of
\* 1 SOL; for withdraw_funds the 8 bytes of the validation data (2000 in
\* the first lifecycle, 500 in the second); for cancel_subscription
\* nothing.  Two calls carry the same selector exactly if they call the
\* same method, the four selectors being pairwise different.
C24_PayloadIsSelectorThenArgs ==
    /\ \A m1 \in Methods, m2 \in Methods :
          /\ Len(get_instruction_sighash(m1)) = 8
          /\ (get_instruction_sighash(m1) = get_instruction_sighash(m2)) <=> (m1 = m2)
    /\ \A k \in 1..Len(txLog) :
          LET data == txLog[k].instruction.data
              m    == PlanMethods[k]
              id   == IF k <= 10 THEN SubscriptionId ELSE SubscriptionId2
              n    == Len(Utf8(id))
          IN  /\ SubSeq(data, 1, 8) = get_instruction_sighash(m)
              /\ (m = "cancel_subscription") => Len(data) = 8
              /\ (m = "make_payment")
                   => /\ Len(data) = 16
                      /\ FromLittleEndian(SubSeq(data, 9, 16)) = PaymentAmount
              /\ (m = "withdraw_funds")
                   => /\ Len(data) = 16
                      /\ FromLittleEndian(SubSeq(data, 9, 16))
                           = IF k <= 10 THEN FAILED_VALIDATION_DATA ELSE VALID_VALIDATION_DATA
              /\ (m = "start_subscription")
                   => /\ Len(data) = 8 + 4 + n + 8
                      /\ FromLittleEndian(SubSeq(data, 9, 12)) = n
                      /\ SubSeq(data, 13, 12 + n) = Utf8(id)
                      /\ FromLittleEndian(SubSeq(data, 13 + n, 20 + n))
                           = DEFAULT_VALIDATION_THRESHOLD
    /\ \A j \in 1..Len(txLog), k \in 1..Len(txLog) :
          (SubSeq(txLog[j].instruction.data, 1, 8) = SubSeq(txLog[k].instruction.data, 1, 8))
            <=> (PlanMethods[j] = PlanMethods[k])

\* Calls of all four methods were submitted, in both lifecycles.
C24_Witness ==
    /\ Len(txLog) = 18
    /\ {MethodOf(txLog[k].instruction) : k \in 1..Len(txLog)} = Methods

-----------------------------------------------------------------------------
(* C25: the sign of the escrow balance change of an escrowed payment.      *)

\* C25: for any behaviour of the program, once the escrowed-payment
\* scenario accepted a payment the escrow balance it read after the payment
\* exceeds the one it read before by the payment amount within 10,000
\* lamports, signed: a payment after which the balance decreased is not
\* accepted.
C25_SignedIncrease ==
    (ScenarioNow = 2 /\ Running /\ pc \in {"pay_pre", "pay_verify"} /\ i >= 1)
      => /\ post.escrow - pre.escrow >= PaymentAmount - PAYMENT_TOLERANCE
         /\ post.escrow - pre.escrow <= PaymentAmount + PAYMENT_TOLERANCE

-----------------------------------------------------------------------------
(* C26: the band of the buyer's gain in the successful withdrawal.         *)

\* C26: for any behaviour of the program, the successful-withdrawal
\* scenario ends with success only if the buyer's balance increased by the
\* rent-exemption reserve within 0.01 SOL, neither less than the reserve
\* minus the tolerance nor more than the reserve plus the tolerance, and
\* the seller's balance increased by the escrowed total of 5 SOL within the
\* same tolerance.
C26_BuyerGainInBand ==
    (result = "ok")
      => /\ post.buyer - pre.buyer >= rent - WithdrawalTolerance
         /\ post.buyer - pre.buyer <= rent + WithdrawalTolerance
         /\ post.seller - pre.seller >= LAMPORTS_PER_SOL * 5 - WithdrawalTolerance
         /\ post.seller - pre.seller <= LAMPORTS_PER_SOL * 5 + WithdrawalTolerance

-----------------------------------------------------------------------------
(* C27: transport errors inside request_airdrop_with_confirmation.         *)

\* C27: a confirmation poll or a balance read of a funding call that fails
\* while polls or attempts remain ends the run at once with the transport
\* error: the position, the attempt and the poll stay where they are, no
\* request and no poll follows.  A funding call never ends with a transport
\* error at the request itself, and a new attempt starts only after a
\* refused request or after the last poll of an accepted one.
C27_PollErrorEndsFunding ==
    /\ [][(/\ InFunding /\ pc \in {"airdrop_confirm", "airdrop_balance"}
           /\ failed' /\ ~failed
           /\ (poll + 1 < CONFIRM_POLLS \/ attempt + 1 < AIRDROP_ATTEMPTS))
            => /\ result' = "rpc_error"
               /\ <<pc, attempt, poll, nRequests, fundIdx>>'
                    = <<pc, attempt, poll, nRequests, fundIdx>>]_vars
    /\ [][result # "rpc_error"]_vars
    /\ []((result = "rpc_error" /\ pc \in FundingPcs) => pc # "airdrop_request")
    /\ [][(InFunding /\ attempt' = attempt + 1)
            => \/ pc = "airdrop_request" /\ RequestRefusedNow
               \/ pc \in {"airdrop_confirm", "airdrop_balance"}
                    /\ poll + 1 = CONFIRM_POLLS /\ (result' = "running" <=> ~failed')]_vars

\* The balance read after the first positive confirmation of the first
\* attempt failed and ended the run, 31 polls and 2 attempts unused.
C27_Witness ==
    /\ result = "rpc_error" /\ pc = "airdrop_balance"
    /\ attempt = 0 /\ poll = 0 /\ nRequests = 1

-----------------------------------------------------------------------------
(* C28: the route of a payment is chosen by the program, not by the call.  *)

\* C28: the two transactions of the direct-payment scenario carry the very
\* instruction of the escrowed payments (same selector make_payment, same
\* 8 bytes of the amount of 1 SOL, same account list and flags), paid and
\* signed by the buyer alone like them; and a program that follows its
\* contract credits the amount of an executed make_payment to the escrow
\* account when the stored payment_count is below 5 and to the seller
\* otherwise, so that the sixth and seventh payments go to the seller.
C28_RouteChosenByAccountState ==
    /\ [](\A k \in 2..Len(txLog) :
            (k <= 8)
              => /\ txLog[k].instruction = txLog[2].instruction
                 /\ txLog[k].payer = txLog[2].payer
                 /\ txLog[k].signers = txLog[2].signers
                 /\ txLog[k].signers = {Buyer}
                 /\ MethodOf(txLog[k].instruction) = "make_payment"
                 /\ U64Arg(txLog[k].instruction) = PaymentAmount)
    /\ [][(ExecutedNow /\ MethodNow = "make_payment" /\ devs' = 0)
            => LET a == AccountNow
                   s == IxSeller(IxNow)
               IN  IF acct[a].payment_count < ESCROWED_PAYMENTS
                   THEN bal'[a] = bal[a] + U64Arg(IxNow) /\ bal'[s] = bal[s]
                   ELSE bal'[a] = bal[a] /\ bal'[s] = bal[s] + U64Arg(IxNow)]_vars

\* Both direct payments were executed by a program that follows its
\* contract: the seller holds 2 SOL more than it was funded with.
C28_Witness ==
    /\ Running /\ pc = "direct_post" /\ Len(txLog) = 8 /\ devs = 0
    /\ txLog[8].instruction = txLog[2].instruction
    /\ bal[Seller] = SELLER_INITIAL_BALANCE + 2 * PaymentAmount

-----------------------------------------------------------------------------
(* C29: the escrow balance and the refund the harness expects.             *)

\* C29: with a program that follows its contract, in every state in which
\* the escrow account exists its balance is the rent-exemption reserve
\* deposited at start plus total_amount; and when test_failed_withdrawal
\* submits the withdrawal, that balance is exactly the increase the harness
\* expects for the buyer: 5 SOL plus the reserve it was quoted.
C29_BalanceIsExpectedRefund ==
    (devs = 0)
      => /\ \A a \in Pdas :
               acct[a].exists => bal[a] - acct[a].total_amount \in RentDeposits
         /\ (Running /\ pc \in {"fw_blockhash", "fw_send"})
               => /\ acct[SubscriptionPda].total_amount = LAMPORTS_PER_SOL * 5
                  /\ bal[SubscriptionPda] = LAMPORTS_PER_SOL * 5 + rent

====
